---- MODULE Spec2Model ----
(***************************************************************************)
(* Model of rmgpy/qm/gaussian.py: the Gaussian retry/verification state     *)
(* machine.  A GaussianMolPM3 object is asked for its QM data; it checks    *)
(* for a cached output file, otherwise walks the keyword table, writing an  *)
(* input file, running g09 and verifying the output, until one attempt      *)
(* verifies or the attempt budget is exhausted.                             *)
(*                                                                         *)
(* Text is modelled by TLA+ strings; the string methods the code uses       *)
(* (strip, in, startswith) are computed character by character.             *)
(***************************************************************************)
EXTENDS Integers, Sequences, FiniteSets, TLC

VARIABLES
    pc,          \* pc[r]: position of invocation r inside generateQMData
    attempt,     \* attempt[r]: the loop variable of line 175
    success,     \* success[r]: the local of lines 174/177
    result,      \* result[r]: what generateQMData returned (or NoResult)
    events,      \* events[r]: history of the calls invocation r has made
    inputFile,   \* the file at self.inputFilePath
    outputFile,  \* the file at self.outputFilePath
    solverInput, \* solverInput[r]: the input deck the g09 child of r was given
    molecule,    \* radicalElectrons of self.molecule.atoms
    vf,          \* a direct call of verifyOutputFile: file, identity, returned value
    kw,          \* a direct call of inputFileKeywords: class, attempt, returned value
    outputBy,    \* the invocation whose g09 child last wrote the output file (0: none)
    verified,    \* verified[r]: whose log the latest verifyOutputFile call of r read,
                 \* whether that log was the one its call before had read (stale),
                 \* and whether the output file still has the content it read
    wr,          \* a direct call of writeInputFile: class, attempt, usePolar, outcome
    pr,          \* a direct call of parse: atoms, returned value
    rn           \* two g09 children side by side: log left, exit status, verdict of run()

orchVars == <<pc, attempt, success, result, events, inputFile, outputFile, solverInput, molecule,
              outputBy, verified>>
vars == <<pc, attempt, success, result, events, inputFile, outputFile, solverInput, molecule, vf, kw,
          outputBy, verified, wr, pr, rn>>

----------------------------------------------------------------------------
(* Bounds of the model *)

\* number of successive generateQMData invocations on the same object
NumRuns == 2
\* longest output document (in lines) handed to a direct verifyOutputFile call
MaxLines == 3
\* how far outside the valid ranges a direct inputFileKeywords call may reach
ArgSlack == 1

\* longest atom list handed to a direct parse call
MaxAtoms == 4
\* largest radicalElectrons of one atom in a direct parse call
MaxRadical == 2

Runs == 1..NumRuns

----------------------------------------------------------------------------
(* Class attributes of Gaussian *)

usePolar == FALSE

failureKeys == <<"ERROR TERMINATION", "IMAGINARY FREQUENCIES">>

successKeys == <<"Normal termination of Gaussian">>

Range(s) == {s[i] : i \in DOMAIN s}

----------------------------------------------------------------------------
(* Python string methods *)

\* the vertical tab (0x0B), for which TLA+ has no escape: the string holds the
\* character itself
VT == ""

\* the characters str.strip() removes: space, \t, \n, \r, \x0b, \x0c
IsSpace(c) == c \in {" ", "\t", "\n", "\r", VT, "\f"}

RECURSIVE lstrip(_)
lstrip(s) ==
    IF Len(s) > 0 /\ IsSpace(SubSeq(s, 1, 1))
    THEN lstrip(SubSeq(s, 2, Len(s)))
    ELSE s

RECURSIVE rstrip(_)
rstrip(s) ==
    IF Len(s) > 0 /\ IsSpace(SubSeq(s, Len(s), Len(s)))
    THEN rstrip(SubSeq(s, 1, Len(s) - 1))
    ELSE s

\* line.strip()
strip(s) == rstrip(lstrip(s))

\* element in line
Contains(element, line) ==
    \E i \in 1..(Len(line) - Len(element) + 1) :
        SubSeq(line, i, i + Len(element) - 1) = element

\* s.startswith(prefix)
startswith(s, prefix) ==
    /\ Len(prefix) <= Len(s)
    /\ SubSeq(s, 1, Len(prefix)) = prefix

----------------------------------------------------------------------------
(* Keyword policy: GaussianMolPM3 and GaussianReactionPM3 *)

GaussianMolPM3_keywords == <<
    "# pm3 opt=(verytight,gdiis) freq IOP(2/16=3)",
    "# pm3 opt=(verytight,gdiis) freq IOP(2/16=3) IOP(4/21=2)",
    "# pm3 opt=(verytight,calcfc,maxcyc=200) freq IOP(2/16=3) nosymm",
    "# pm3 opt=(verytight,calcfc,maxcyc=200) freq=numerical IOP(2/16=3) nosymm",
    "# pm3 opt=(verytight,gdiis,small) freq IOP(2/16=3)",
    "# pm3 opt=(verytight,nolinear,calcfc,small) freq IOP(2/16=3)",
    "# pm3 opt=(verytight,gdiis,maxcyc=200) freq=numerical IOP(2/16=3)",
    "# pm3 opt=tight freq IOP(2/16=3)",
    "# pm3 opt=tight freq=numerical IOP(2/16=3)",
    "# pm3 opt=(tight,nolinear,calcfc,small,maxcyc=200) freq IOP(2/16=3)",
    "# pm3 opt freq IOP(2/16=3)",
    "# pm3 opt=(verytight,gdiis) freq=numerical IOP(2/16=3) IOP(4/21=200)",
    "# pm3 opt=(calcfc,verytight,newton,notrustupdate,small,maxcyc=100,maxstep=100) freq=(numerical,step=10) IOP(2/16=3) nosymm",
    "# pm3 opt=(tight,gdiis,small,maxcyc=200,maxstep=100) freq=numerical IOP(2/16=3) nosymm",
    "# pm3 opt=(tight,gdiis,small,maxcyc=200,maxstep=100) freq=numerical IOP(2/16=3) nosymm",
    "# pm3 opt=(verytight,gdiis,calcall,small,maxcyc=200) IOP(2/16=3) IOP(4/21=2) nosymm",
    "# pm3 opt=(verytight,gdiis,calcall,small) IOP(2/16=3) nosymm",
    "# pm3 opt=(calcall,small,maxcyc=100) IOP(2/16=3)"
    >>

GaussianReactionPM3_keywords == <<
    "# pm3 opt=(verytight,gdiis) freq IOP(2/16=3)",
    "# pm3 opt=(verytight,gdiis) freq IOP(2/16=3) IOP(4/21=2)",
    "# pm3 opt=(verytight,calcfc,maxcyc=200) freq IOP(2/16=3) nosymm",
    "# pm3 opt=(verytight,calcfc,maxcyc=200) freq=numerical IOP(2/16=3) nosymm",
    "# pm3 opt=(verytight,gdiis,small) freq IOP(2/16=3)",
    "# pm3 opt=(verytight,nolinear,calcfc,small) freq IOP(2/16=3)",
    "# pm3 opt=(verytight,gdiis,maxcyc=200) freq=numerical IOP(2/16=3)",
    "# pm3 opt=tight freq IOP(2/16=3)",
    "# pm3 opt=tight freq=numerical IOP(2/16=3)",
    "# pm3 opt=(tight,nolinear,calcfc,small,maxcyc=200) freq IOP(2/16=3)",
    "# pm3 opt freq IOP(2/16=3)",
    "# pm3 opt=(verytight,gdiis) freq=numerical IOP(2/16=3) IOP(4/21=200)",
    "# pm3 opt=(calcfc,verytight,newton,notrustupdate,small,maxcyc=100,maxstep=100) freq=(numerical,step=10) IOP(2/16=3) nosymm",
    "# pm3 opt=(tight,gdiis,small,maxcyc=200,maxstep=100) freq=numerical IOP(2/16=3) nosymm",
    "# pm3 opt=(tight,gdiis,small,maxcyc=200,maxstep=100) freq=numerical IOP(2/16=3) nosymm",
    "# pm3 opt=(verytight,gdiis,calcall,small,maxcyc=200) IOP(2/16=3) IOP(4/21=2) nosymm",
    "# pm3 opt=(verytight,gdiis,calcall,small) IOP(2/16=3) nosymm",
    "# pm3 opt=(calcall,small,maxcyc=100) IOP(2/16=3)"
    >>

Classes == {"GaussianMolPM3", "GaussianReactionPM3"}

keywords(cls) ==
    IF cls = "GaussianMolPM3" THEN GaussianMolPM3_keywords
    ELSE GaussianReactionPM3_keywords

scriptAttempts(cls) == Len(keywords(cls))

maxAttempts(cls) == 2 * Len(keywords(cls))

Raise(e) == [ok |-> FALSE, exc |-> e]
Return(v) == [ok |-> TRUE, value |-> v]

\* list[i] with Python's rules: negative indices count from the end,
\* anything outside -len..len-1 raises IndexError
PyIndex(list, i) ==
    IF i >= 0 /\ i < Len(list) THEN Return(list[i + 1])
    ELSE IF i < 0 /\ i >= -Len(list) THEN Return(list[Len(list) + i + 1])
    ELSE Raise("IndexError")

\* the fold is off by one: attempt scriptAttempts+1 replays the second entry
foldAttempt_offByOne(cls, a) ==
    IF a > scriptAttempts(cls) THEN a - scriptAttempts(cls) + 1 ELSE a

\* the index into the keyword table after the fold of lines 229-230
foldAttempt(cls, a) ==
    IF a > scriptAttempts(cls) THEN a - scriptAttempts(cls) ELSE a

inputFileKeywords(cls, a) ==
    IF ~(a <= maxAttempts(cls)) THEN Raise("AssertionError")
    ELSE PyIndex(keywords(cls), foldAttempt(cls, a) - 1)

----------------------------------------------------------------------------
(* Files *)

\* the output path: nothing there, or a text file with these lines
NoFile == [exists |-> FALSE, lines |-> <<>>]

File(ls) == [exists |-> TRUE, lines |-> ls]

\* something at the output path that os.path.exists() sees and open() refuses:
\* a directory, a file without read permission
Unreadable == [exists |-> TRUE, lines |-> <<>>, error |-> "IOError"]

Readable(file) == "error" \notin DOMAIN file

\* the input path: nothing there, or a file with this content
NoInput == [exists |-> FALSE, text |-> ""]

Input(text) == [exists |-> TRUE, text |-> text]

\* a writer opened with mode "w" flushes its buffer at offset 0 when it is
\* closed: what the file held beyond the length of the buffer stays
Overlay(buffer, old) == buffer \o SubSeq(old, Len(buffer) + 1, Len(old))

\* what a sequence of write() calls leaves in a file
RECURSIVE Join(_)
Join(chunks) == IF chunks = <<>> THEN "" ELSE Head(chunks) \o Join(Tail(chunks))

----------------------------------------------------------------------------
(* Gaussian.verifyOutputFile *)

\* the locals of lines 65-69 before the first line is read
scanStart ==
    [returned         |-> FALSE,
     successKeysFound |-> [key \in Range(successKeys) |-> FALSE],
     InChIFound       |-> FALSE,
     InChIMatch       |-> FALSE]

\* only the first failure key is searched for
scanLine_firstFailureKeyOnly(st, line, uniqueIDlong) ==
    IF Contains(failureKeys[1], line)
    THEN [st EXCEPT !.returned = TRUE]
    ELSE [returned         |-> FALSE,
          successKeysFound |-> [key \in Range(successKeys) |->
                                   st.successKeysFound[key] \/ Contains(key, line)],
          InChIFound       |-> st.InChIFound \/ startswith(line, "InChI="),
          InChIMatch       |-> \/ st.InChIMatch
                               \/ /\ startswith(line, "InChI=")
                                  /\ \/ line = uniqueIDlong
                                     \/ startswith(uniqueIDlong, line)]

\* the elif of line 89 is missing: a truncated identity does not match
scanLine_noPrefixMatch(st, line, uniqueIDlong) ==
    IF \E i \in DOMAIN failureKeys : Contains(failureKeys[i], line)
    THEN [st EXCEPT !.returned = TRUE]
    ELSE [returned         |-> FALSE,
          successKeysFound |-> [key \in Range(successKeys) |->
                                   st.successKeysFound[key] \/ Contains(key, line)],
          InChIFound       |-> st.InChIFound \/ startswith(line, "InChI="),
          InChIMatch       |-> \/ st.InChIMatch
                               \/ /\ startswith(line, "InChI=")
                                  /\ line = uniqueIDlong]

\* InChIMatch is assigned on every identity line: the last one decides
scanLine_lastIdentityWins(st, line, uniqueIDlong) ==
    IF \E i \in DOMAIN failureKeys : Contains(failureKeys[i], line)
    THEN [st EXCEPT !.returned = TRUE]
    ELSE [returned         |-> FALSE,
          successKeysFound |-> [key \in Range(successKeys) |->
                                   st.successKeysFound[key] \/ Contains(key, line)],
          InChIFound       |-> st.InChIFound \/ startswith(line, "InChI="),
          InChIMatch       |-> IF startswith(line, "InChI=")
                               THEN \/ line = uniqueIDlong
                                    \/ startswith(uniqueIDlong, line)
                               ELSE st.InChIMatch]

\* one pass of the loop body of lines 73-95 over an already stripped line
scanLine(st, line, uniqueIDlong) ==
    IF \E i \in DOMAIN failureKeys : Contains(failureKeys[i], line)
    THEN [st EXCEPT !.returned = TRUE]
    ELSE [returned         |-> FALSE,
          successKeysFound |-> [key \in Range(successKeys) |->
                                   st.successKeysFound[key] \/ Contains(key, line)],
          InChIFound       |-> st.InChIFound \/ startswith(line, "InChI="),
          InChIMatch       |-> \/ st.InChIMatch
                               \/ /\ startswith(line, "InChI=")
                                  /\ \/ line = uniqueIDlong
                                     \/ startswith(uniqueIDlong, line)]

\* the for loop of line 72, left by the return of line 78
RECURSIVE scanLines(_, _, _, _)
scanLines(st, lines, i, uniqueIDlong) ==
    IF i > Len(lines) \/ st.returned THEN st
    ELSE CHOOSE end \in {scanLines(next, lines, i + 1, uniqueIDlong) :
                             next \in {scanLine(st, strip(lines[i]), uniqueIDlong)}} : TRUE

\* the check of line 102 is missing and a file without identity line passes
verifyOutputFile_noIdentityNeeded(file, uniqueIDlong) ==
    IF ~file.exists THEN Return(FALSE)
    ELSE IF ~Readable(file) THEN Raise(file.error)
    ELSE Return(\E st \in {scanLines(scanStart, file.lines, 1, uniqueIDlong)} :
         IF st.returned THEN FALSE
         ELSE IF ~(\A key \in Range(successKeys) : st.successKeysFound[key]) THEN FALSE
         ELSE IF ~st.InChIFound THEN TRUE
         ELSE IF st.InChIMatch THEN TRUE
         ELSE FALSE)

\* returns True or False; for a path that exists and cannot be opened the
\* open() of line 71 raises
verifyOutputFile(file, uniqueIDlong) ==
    IF ~file.exists THEN Return(FALSE)
    ELSE IF ~Readable(file) THEN Raise(file.error)
    ELSE Return(\E st \in {scanLines(scanStart, file.lines, 1, uniqueIDlong)} :
         IF st.returned THEN FALSE
         ELSE IF ~(\A key \in Range(successKeys) : st.successKeysFound[key]) THEN FALSE
         ELSE IF ~st.InChIFound THEN FALSE
         ELSE IF st.InChIMatch THEN TRUE
         ELSE FALSE)

----------------------------------------------------------------------------
(* Gaussian.run *)

\* the child is trusted: True as soon as it exits with status 0
run_exitStatus(file, uniqueIDlong, returncode) ==
    IF returncode = 0 THEN Return(TRUE) ELSE verifyOutputFile(file, uniqueIDlong)

\* the verdict is os.path.exists(self.outputFilePath)
run_existsOnly(file, uniqueIDlong, returncode) == Return(file.exists)

\* file: the output path once communicate() has returned; returncode: the exit
\* status of the child, which line 41 drops
run(file, uniqueIDlong, returncode) == verifyOutputFile(file, uniqueIDlong)

----------------------------------------------------------------------------
(* Gaussian.parse *)

RECURSIVE sum(_)
sum(list) == IF list = <<>> THEN 0 ELSE Head(list) + sum(Tail(list))

\* CCLibData(cclibData, radicalNumber): the + 1 of line 124 is missing
parse_noPlusOne(file, atoms, parsed) ==
    IF ~parsed THEN Raise("ParserError")
    ELSE LET radicalNumber == sum(atoms) IN
         Return([cclibData |-> file, multiplicity |-> radicalNumber])

\* parsed = FALSE: cclib raised on the file
parse(file, atoms, parsed) ==
    IF ~parsed THEN Raise("ParserError")
    ELSE LET radicalNumber == sum(atoms) IN
         Return([cclibData |-> file, multiplicity |-> radicalNumber + 1])

----------------------------------------------------------------------------
(* GaussianMol.writeInputFile *)

\* what openbabel renders: the mol file of this attempt, titled with the identity
input_string(a, uniqueIDlong) ==
    "<gjf molFile=" \o ToString(a) \o " title=" \o uniqueIDlong \o ">"

\* writeInputFile of an object whose usePolar attribute is polar.  ok: the call
\* completed; opened: line 152 was reached; value / written: the chunks in the
\* file when the with block is left.  No name polar_keys is defined anywhere,
\* so line 158 raises NameError after the write of line 157.
writeInputFileWith(cls, a, uniqueIDlong, polar) ==
    LET top_keys == inputFileKeywords(cls, a)
        chunks == <<top_keys.value, input_string(a, uniqueIDlong), "\n">>
    IN
    IF ~top_keys.ok
    THEN [ok |-> FALSE, exc |-> top_keys.exc, opened |-> FALSE, written |-> <<>>]
    ELSE IF polar
    THEN [ok |-> FALSE, exc |-> "NameError", opened |-> TRUE,
          written |-> chunks \o <<"\n\n\n">>]
    ELSE [ok |-> TRUE, value |-> chunks, opened |-> TRUE, written |-> chunks]

\* the value is the sequence of chunks written to self.inputFilePath
writeInputFile(cls, a, uniqueIDlong) == writeInputFileWith(cls, a, uniqueIDlong, usePolar)

----------------------------------------------------------------------------
(* The environment of one GaussianMolPM3 object *)

\* self.geometry.uniqueIDlong after createGeometry
uniqueIDlong == "InChI=1S/C2H6O/c1-2-3/h3H,2H2,1H3"

\* lines a Gaussian log can hold
LinePool ==
    { " Normal termination of Gaussian 09 at Mon Jan  1.",
      " ERROR TERMINATION in l502",
      " ******    1 IMAGINARY FREQUENCIES (NEGATIVE SIGNS) ******",
      "InChI=1S/C2H6O/c1-2-3/h3H,2H2,1H3",
      " " \o VT \o "InChI=1S/C2H6O/c1-2 ",
      "InChI=1S/CH4/h1H4",
      " Title: InChI=1S/C2H6O/c1-2-3/h3H,2H2,1H3" }

\* every document of at most n lines
Documents(n) ==
    {NoFile} \cup UNION { {File(ls) : ls \in [1..k -> LinePool]} : k \in 0..n }

\* identities a direct verifyOutputFile call is made with
IdentityPool == { uniqueIDlong, "InChI=1S/C2H6O/c1-2" }

\* documents found at the output path before the first invocation, or left there by g09
GoodLog ==
    File(<<" Title: InChI=1S/C2H6O/c1-2-3/h3H,2H2,1H3",
           "InChI=1S/C2H6O/c1-2-3/h3H,2H2,1H3",
           " Normal termination of Gaussian 09 at Mon Jan  1.">>)

TruncatedLog ==
    File(<<" " \o VT \o "InChI=1S/C2H6O/c1-2 ",
           " Normal termination of Gaussian 09 at Mon Jan  1.">>)

ErrorLog ==
    File(<<"InChI=1S/C2H6O/c1-2-3/h3H,2H2,1H3",
           " ERROR TERMINATION in l502">>)

ImaginaryLog ==
    File(<<"InChI=1S/C2H6O/c1-2-3/h3H,2H2,1H3",
           " ******    1 IMAGINARY FREQUENCIES (NEGATIVE SIGNS) ******",
           " Normal termination of Gaussian 09 at Mon Jan  1.">>)

OtherMoleculeLog ==
    File(<<"InChI=1S/CH4/h1H4",
           " Normal termination of Gaussian 09 at Mon Jan  1.">>)

SolverLogs == {GoodLog, TruncatedLog, ErrorLog, ImaginaryLog, OtherMoleculeLog}

MoleculePool == { <<0, 0, 1, 0>>, <<0, 0, 0>> }

NoResult == [returned |-> FALSE]

\* no verifyOutputFile call made yet
NotVerified == [done |-> FALSE, by |-> 0, stale |-> FALSE, unchanged |-> FALSE]

\* exit statuses of the g09 child; the code never reads them
ReturnCodes == {0, 1}

Terminal == {"returned", "failed", "parseError", "writeError", "ioError",
             "importError", "debuggerQuit"}

\* the class whose generateQMData is run
Cls == "GaussianMolPM3"

\* range(1, self.maxAttempts+1) of line 175
rangeStart == 1

\* range(1, self.maxAttempts): the last attempt of the budget is never tried
rangeStop_short(cls) == maxAttempts(cls)

\* range(1, self.maxAttempts+2): one attempt beyond the budget
rangeStop_over(cls) == maxAttempts(cls) + 2

rangeStop(cls) == maxAttempts(cls) + 1

\* the cached output is ignored: the loop is entered whatever the verdict
cacheStep_always(cls, verdict) ==
    IF rangeStart < rangeStop(cls) THEN [pc |-> "write", inLoop |-> TRUE]
    ELSE [pc |-> "failed", inLoop |-> FALSE]

\* lines 171-175: where generateQMData goes once the cache check has answered
cacheStep(cls, verdict) ==
    IF verdict THEN [pc |-> "parse", inLoop |-> FALSE]
    ELSE IF rangeStart < rangeStop(cls) THEN [pc |-> "write", inLoop |-> TRUE]
    ELSE [pc |-> "failed", inLoop |-> FALSE]

\* the break of line 180 is missing: the loop runs on after a success
loopStep_nobreak(cls, a, verdict) ==
    IF a + 1 < rangeStop(cls) THEN [pc |-> "write", attempt |-> a + 1]
    ELSE IF verdict THEN [pc |-> "parse", attempt |-> a]
    ELSE [pc |-> "failed", attempt |-> a]

\* an exhausted budget starts the loop again at attempt 1
loopStep_restart(cls, a, verdict) ==
    IF verdict THEN [pc |-> "parse", attempt |-> a]
    ELSE IF a + 1 < rangeStop(cls) THEN [pc |-> "write", attempt |-> a + 1]
    ELSE [pc |-> "write", attempt |-> rangeStart]

\* lines 178-182: where the loop goes once run() has answered for attempt a
loopStep(cls, a, verdict) ==
    IF verdict THEN [pc |-> "parse", attempt |-> a]
    ELSE IF a + 1 < rangeStop(cls) THEN [pc |-> "write", attempt |-> a + 1]
    ELSE [pc |-> "failed", attempt |-> a]

----------------------------------------------------------------------------
(* Views of the history of invocation r *)

EventsOf(r, op) == SelectSeq(events[r], LAMBDA e : e.op = op)

Count(r, op) == Len(EventsOf(r, op))

\* attempt indices handed to writeInputFile, in order
WrittenAttempts(r) ==
    LET w == EventsOf(r, "write") IN [i \in DOMAIN w |-> w[i].attempt]

\* verdicts returned by run(), in order
RunVerdicts(r) ==
    LET v == EventsOf(r, "run") IN [i \in DOMAIN v |-> v[i].verdict]

----------------------------------------------------------------------------
(* GaussianMol.generateQMData, one action per call it makes *)

Init ==
    /\ pc = [r \in Runs |-> "idle"]
    /\ attempt = [r \in Runs |-> 0]
    /\ success = [r \in Runs |-> FALSE]
    /\ result = [r \in Runs |-> NoResult]
    /\ events = [r \in Runs |-> <<>>]
    /\ inputFile = NoInput
    /\ outputFile \in {NoFile, Unreadable} \cup SolverLogs
    /\ solverInput = [r \in Runs |-> NoInput]
    /\ molecule \in MoleculePool
    /\ vf = [called |-> FALSE]
    /\ kw = [called |-> FALSE]
    /\ outputBy = 0
    /\ verified = [r \in Runs |-> NotVerified]
    /\ wr = [called |-> FALSE]
    /\ pr = [called |-> FALSE]
    /\ rn = [called |-> FALSE]

\* line 170: the caller enters generateQMData; invocation r follows invocation r-1
Call(r) ==
    /\ pc[r] = "idle"
    /\ r > 1 => pc[r - 1] \in Terminal
    /\ pc' = [pc EXCEPT ![r] = "cacheCheck"]
    /\ UNCHANGED <<attempt, success, result, events, inputFile, outputFile,
                   solverInput, molecule, vf, kw, outputBy, verified, wr, pr, rn>>

\* lines 171-175: the cache check and, when it fails, the entry into the loop
CacheCheck(r) ==
    /\ pc[r] = "cacheCheck"
    /\ \E v \in {verifyOutputFile(outputFile, uniqueIDlong)} :
       IF v.ok
       THEN LET verdict == v.value
                step == cacheStep(Cls, verdict)
            IN
            /\ events' = [events EXCEPT ![r] =
                   Append(@, [op |-> "cache", verdict |-> verdict])]
            /\ pc' = [pc EXCEPT ![r] = step.pc]
            /\ attempt' = [attempt EXCEPT ![r] = IF step.inLoop THEN rangeStart ELSE @]
            /\ success' = [success EXCEPT ![r] = FALSE]
       ELSE /\ events' = [events EXCEPT ![r] = Append(@, [op |-> "cache", exc |-> v.exc])]
            /\ pc' = [pc EXCEPT ![r] = "ioError"]
            /\ UNCHANGED <<attempt, success>>
    /\ verified' = [verified EXCEPT ![r] =
           [done |-> TRUE, by |-> outputBy, stale |-> FALSE, unchanged |-> TRUE]]
    /\ UNCHANGED <<result, inputFile, outputFile, solverInput, molecule, vf, kw,
                   outputBy, wr, pr, rn>>

\* line 176: self.writeInputFile(attempt)
WriteInput(r) ==
    /\ pc[r] = "write"
    /\ LET w == writeInputFile(Cls, attempt[r], uniqueIDlong) IN
       IF w.ok
       THEN /\ inputFile' = Input(Join(w.value))
            /\ events' = [events EXCEPT ![r] =
                   Append(@, [op |-> "write", attempt |-> attempt[r],
                              keywords |-> w.value[1],
                              index |-> foldAttempt(Cls, attempt[r]) - 1])]
            /\ pc' = [pc EXCEPT ![r] = "launch"]
       ELSE /\ pc' = [pc EXCEPT ![r] = "writeError"]
            /\ inputFile' = IF w.opened THEN Input(Join(w.written)) ELSE inputFile
            /\ UNCHANGED events
    /\ UNCHANGED <<attempt, success, result, outputFile, solverInput, molecule, vf, kw,
                   outputBy, verified, wr, pr, rn>>

\* communicate() is missing: run() goes on to verify while g09 is still at work
Launch_noWait(r) ==
    /\ pc[r] = "launch"
    /\ solverInput' = [solverInput EXCEPT ![r] = inputFile]
    /\ events' = [events EXCEPT ![r] = Append(@, [op |-> "launch", attempt |-> attempt[r]])]
    /\ pc' = [pc EXCEPT ![r] = "verify"]
    /\ UNCHANGED <<attempt, success, result, inputFile, outputFile, molecule, vf, kw,
                   outputBy, verified, wr, pr, rn>>

\* line 40: Popen hands the input and output paths to g09
Launch(r) ==
    /\ pc[r] = "launch"
    /\ solverInput' = [solverInput EXCEPT ![r] = inputFile]
    /\ events' = [events EXCEPT ![r] = Append(@, [op |-> "launch", attempt |-> attempt[r]])]
    /\ pc' = [pc EXCEPT ![r] = "running"]
    /\ UNCHANGED <<attempt, success, result, inputFile, outputFile, molecule, vf, kw,
                   outputBy, verified, wr, pr, rn>>

\* line 41: communicate() returns once g09 has exited; g09 has written some log,
\* or has left the output path as it was
SolverExit(r) ==
    /\ pc[r] = "running"
    /\ \/ \E log \in SolverLogs :
              /\ outputFile' = log
              /\ outputBy' = r
              /\ verified' = [q \in Runs |->
                     [verified[q] EXCEPT !.unchanged = @ /\ log = outputFile]]
       \/ UNCHANGED <<outputFile, outputBy, verified>>
    /\ events' = [events EXCEPT ![r] = Append(@, [op |-> "exit", attempt |-> attempt[r]])]
    /\ pc' = [pc EXCEPT ![r] = "verify"]
    /\ UNCHANGED <<attempt, success, result, inputFile, solverInput, molecule, vf, kw,
                   wr, pr, rn>>

\* lines 43, 177-182: run() returns the verdict; break, next attempt, or raise
VerifyRun(r) ==
    /\ pc[r] = "verify"
    /\ \E returncode \in ReturnCodes :
       \E v \in {run(outputFile, uniqueIDlong, returncode)} :
       IF v.ok
       THEN LET verdict == v.value
                step == loopStep(Cls, attempt[r], verdict)
            IN
            /\ success' = [success EXCEPT ![r] = verdict]
            /\ events' = [events EXCEPT ![r] =
                   Append(@, [op |-> "run", attempt |-> attempt[r], verdict |-> verdict])]
            /\ pc' = [pc EXCEPT ![r] = step.pc]
            /\ attempt' = [attempt EXCEPT ![r] = step.attempt]
       ELSE /\ events' = [events EXCEPT ![r] =
                   Append(@, [op |-> "run", attempt |-> attempt[r], exc |-> v.exc])]
            /\ pc' = [pc EXCEPT ![r] = "ioError"]
            /\ UNCHANGED <<attempt, success>>
    /\ verified' = [verified EXCEPT ![r] =
           [done |-> TRUE, by |-> outputBy, stale |-> verified[r].unchanged,
            unchanged |-> TRUE]]
    /\ UNCHANGED <<result, inputFile, outputFile, solverInput, molecule, vf, kw,
                   outputBy, wr, pr, rn>>

\* a parser failure is caught and treated as one more failed attempt
Parse_retry(r) ==
    /\ pc[r] = "parse"
    /\ \E parsed \in BOOLEAN :
         LET p == parse(outputFile, molecule, parsed) IN
         /\ events' = [events EXCEPT ![r] =
                Append(@, [op |-> "parse", ok |-> p.ok, file |-> outputFile])]
         /\ IF p.ok
            THEN /\ result' = [result EXCEPT ![r] = [returned |-> TRUE, value |-> p.value]]
                 /\ pc' = [pc EXCEPT ![r] = "returned"]
                 /\ UNCHANGED attempt
            ELSE /\ pc' = [pc EXCEPT ![r] = "write"]
                 /\ attempt' = [attempt EXCEPT ![r] = @ + 1]
                 /\ UNCHANGED result
    /\ UNCHANGED <<success, inputFile, outputFile, solverInput, molecule, vf, kw,
                   outputBy, verified, wr, pr, rn>>

\* the output file is removed once it has been parsed
Parse_deletesOutput(r) ==
    /\ pc[r] = "parse"
    /\ \E parsed \in BOOLEAN :
         LET p == parse(outputFile, molecule, parsed) IN
         /\ events' = [events EXCEPT ![r] =
                Append(@, [op |-> "parse", ok |-> p.ok, file |-> outputFile])]
         /\ IF p.ok
            THEN /\ result' = [result EXCEPT ![r] = [returned |-> TRUE, value |-> p.value]]
                 /\ pc' = [pc EXCEPT ![r] = "returned"]
            ELSE /\ pc' = [pc EXCEPT ![r] = "parseError"]
                 /\ UNCHANGED result
    /\ outputFile' = NoFile
    /\ UNCHANGED <<attempt, success, inputFile, solverInput, molecule, vf, kw,
                   outputBy, verified, wr, pr, rn>>

\* lines 183-184: result = self.parse(); return result
Parse(r) ==
    /\ pc[r] = "parse"
    /\ \E parsed \in BOOLEAN :
         LET p == parse(outputFile, molecule, parsed) IN
         /\ events' = [events EXCEPT ![r] =
                Append(@, [op |-> "parse", ok |-> p.ok, file |-> outputFile])]
         /\ IF p.ok
            THEN /\ result' = [result EXCEPT ![r] = [returned |-> TRUE, value |-> p.value]]
                 /\ pc' = [pc EXCEPT ![r] = "returned"]
            ELSE /\ pc' = [pc EXCEPT ![r] = "parseError"]
                 /\ UNCHANGED result
    /\ UNCHANGED <<attempt, success, inputFile, outputFile, solverInput, molecule, vf, kw,
                   outputBy, verified, wr, pr, rn>>

Next ==
    \E r \in Runs :
        \/ Call(r)
        \/ CacheCheck(r)
        \/ WriteInput(r)
        \/ Launch(r)
        \/ SolverExit(r)
        \/ VerifyRun(r)
        \/ Parse(r)

Spec == Init /\ [][Next]_vars

\* every g09 child exits and the parser returns or raises: an invocation that
\* can take a step takes one
SpecFair == Init /\ [][Next]_vars /\ WF_vars(Next)

----------------------------------------------------------------------------
(* Properties of generateQMData *)

\* the cache check returned True; it returned False
CacheVerdict(r) ==
    LET e == EventsOf(r, "cache")[1] IN "verdict" \in DOMAIN e /\ e.verdict

CacheMissed(r) ==
    /\ Count(r, "cache") = 1
    /\ LET e == EventsOf(r, "cache")[1] IN "verdict" \in DOMAIN e /\ ~e.verdict

NoRunSucceeded(r) ==
    LET v == RunVerdicts(r) IN \A i \in DOMAIN v : ~v[i]

\* the cycles of invocation r so far are attempts 1, 2, ..., n in that order,
\* each written, launched, waited for and verified once
CyclesAre(r, n) ==
    /\ WrittenAttempts(r) = [i \in 1..n |-> i]
    /\ Count(r, "launch") = n
    /\ Count(r, "exit") = n
    /\ LET v == EventsOf(r, "run") IN
       /\ Len(v) = n
       /\ \A i \in 1..n : v[i].attempt = i

\* C1: when the cache check fails and every run() returns False, generateQMData
\* performs exactly maxAttempts write/run/verify cycles, for attempts
\* 1..maxAttempts in order, and then raises; parse is never called and nothing
\* is returned.
C1_ExhaustedRaises ==
    \A r \in Runs :
        /\ (CacheMissed(r) /\ NoRunSucceeded(r)) =>
              /\ Count(r, "parse") = 0
              /\ ~result[r].returned
              /\ Count(r, "run") <= maxAttempts(Cls)
              /\ pc[r] # "returned" /\ pc[r] # "parseError"
              /\ (Count(r, "run") = maxAttempts(Cls)) <=> (pc[r] = "failed")
              /\ pc[r] \in Terminal => pc[r] = "failed"
        /\ pc[r] = "failed" =>
              /\ CacheMissed(r) /\ NoRunSucceeded(r)
              /\ CyclesAre(r, maxAttempts(Cls))

C1_Witness ==
    \E r \in Runs :
        /\ pc[r] = "failed"
        /\ CacheMissed(r)
        /\ Count(r, "run") = maxAttempts(Cls)
        /\ NoRunSucceeded(r)

\* C2: when the cache check fails and attempt k is the first whose run()
\* returns True, exactly k cycles occur (attempts 1..k), nothing is written or
\* run for an attempt above k, parse is called once after cycle k and its
\* result is what generateQMData returns.
C2_FirstSuccessStops ==
    \A r \in Runs :
        LET v == RunVerdicts(r) IN
        \A k \in DOMAIN v :
            v[k] =>
                /\ CacheMissed(r)
                /\ \A j \in 1..(k - 1) : ~v[j]
                /\ CyclesAre(r, k)
                /\ attempt[r] = k
                /\ pc[r] \in {"parse", "returned", "parseError"}
                /\ Count(r, "parse") = (IF pc[r] = "parse" THEN 0 ELSE 1)
                /\ pc[r] # "parse" =>
                      /\ events[r][Len(events[r])].op = "parse"
                      /\ events[r][Len(events[r]) - 1].op = "run"
                /\ pc[r] = "returned" =>
                      /\ result[r].returned
                      /\ result[r].value =
                            parse(EventsOf(r, "parse")[1].file, molecule, TRUE).value
                      /\ verifyOutputFile(result[r].value.cclibData, uniqueIDlong)
                            = Return(TRUE)

C2_Witness ==
    \E r \in Runs :
        /\ pc[r] = "returned"
        /\ CacheMissed(r)
        /\ RunVerdicts(r) = <<FALSE, TRUE>>
        /\ result[r].returned

\* C3: when the output file already at the output path verifies True at the
\* cache check, no input file is written and g09 is never launched; the
\* invocation goes straight to parse and returns its result.
C3_CachedHitSkipsAttempts ==
    \A r \in Runs :
        (Count(r, "cache") = 1 /\ CacheVerdict(r)) =>
            /\ Count(r, "write") = 0
            /\ Count(r, "launch") = 0
            /\ Count(r, "exit") = 0
            /\ Count(r, "run") = 0
            /\ pc[r] \in {"parse", "returned", "parseError"}
            /\ pc[r] = "parse" => Len(events[r]) = 1
            /\ pc[r] # "parse" =>
                  /\ Len(events[r]) = 2
                  /\ events[r][2].op = "parse"
            /\ pc[r] = "returned" =>
                  /\ result[r].returned
                  /\ result[r].value =
                        parse(EventsOf(r, "parse")[1].file, molecule, TRUE).value

C3_Witness ==
    \E r \in Runs :
        /\ Count(r, "cache") = 1
        /\ CacheVerdict(r)
        /\ pc[r] = "returned"
        /\ result[r].returned
        /\ Count(r, "write") = 0

\* C11: a parse failure on a verified output, on the cached path or after a
\* successful attempt, goes to the caller as it is: the invocation ends there,
\* with no further write, launch, verification or attempt and no result.
C11_ParseFailurePropagates ==
    \A r \in Runs :
        /\ \A i \in DOMAIN events[r] :
              (events[r][i].op = "parse" /\ ~events[r][i].ok) =>
                  /\ i = Len(events[r])
                  /\ pc[r] = "parseError"
                  /\ ~result[r].returned
                  /\ verifyOutputFile(events[r][i].file, uniqueIDlong) = Return(TRUE)
        /\ pc[r] = "parseError" =>
              /\ events[r] # <<>>
              /\ events[r][Len(events[r])].op = "parse"
              /\ ~events[r][Len(events[r])].ok
              /\ attempt[r] = Count(r, "write")
              /\ Count(r, "write") = Count(r, "launch")
              /\ Count(r, "parse") = 1

C11_Witness ==
    /\ \E r \in Runs :
          /\ pc[r] = "parseError"
          /\ Count(r, "run") >= 1
          /\ success[r]
    /\ \E r \in Runs :
          /\ pc[r] = "parseError"
          /\ Count(r, "cache") = 1 /\ CacheVerdict(r)
          /\ Count(r, "run") = 0

\* the call expected at position i of the history of an invocation that has
\* not reached parse: the cache check, then write, launch, exit, run per attempt
CycleOps == <<"write", "launch", "exit", "run">>

Active(r) == pc[r] \notin (Terminal \cup {"idle"})

\* C15: within one invocation the calls are strictly ordered: the cache check
\* comes before every write; for attempt k the input is written before g09 is
\* launched, g09 has exited before the verification of attempt k, and that
\* verification is over before the input of attempt k+1 is written; two
\* attempts are never active on the file pair at once.
C15_StrictOrder ==
    /\ \A r \in Runs :
          /\ \A i \in DOMAIN events[r] :
                IF i = 1 THEN events[r][i].op = "cache"
                ELSE \/ events[r][i].op = "parse" /\ i = Len(events[r])
                     \/ /\ events[r][i].op = CycleOps[((i - 2) % 4) + 1]
                        /\ events[r][i].attempt = ((i - 2) \div 4) + 1
          /\ pc[r] = "launch" => events[r][Len(events[r])].op = "write"
          /\ pc[r] = "running" => events[r][Len(events[r])].op = "launch"
          /\ pc[r] = "verify" => events[r][Len(events[r])].op = "exit"
          /\ pc[r] = "write" => events[r][Len(events[r])].op \in {"cache", "run"}
    /\ Cardinality({r \in Runs : Active(r)}) <= 1

C15_Witness ==
    \E r \in Runs :
        /\ pc[r] = "returned"
        /\ Len(events[r]) = 10
        /\ events[r][5].op = "run" /\ ~events[r][5].verdict
        /\ events[r][6].op = "write" /\ events[r][6].attempt = 2
        /\ events[r][9].op = "run" /\ events[r][9].verdict

Ended(r) == pc[r] \in {"returned", "failed", "parseError", "ioError"}

\* C16: when every g09 child and the parser terminate, every invocation
\* reaches a terminal state, a returned result or a fatal error, after at most
\* maxAttempts launches and maxAttempts + 1 verifications, and the attempt
\* index never goes back.
C16_Terminates ==
    /\ <>[](\A r \in Runs : Ended(r))
    /\ [](\A r \in Runs :
             /\ Count(r, "launch") <= maxAttempts(Cls)
             /\ Count(r, "cache") + Count(r, "run") <= maxAttempts(Cls) + 1)
    /\ [][\A r \in Runs : attempt'[r] >= attempt[r]]_vars

C16_Witness ==
    /\ \A r \in Runs : Ended(r)
    /\ \E r \in Runs :
          /\ pc[r] = "failed"
          /\ Count(r, "launch") = maxAttempts(Cls)
          /\ Count(r, "cache") + Count(r, "run") = maxAttempts(Cls) + 1

\* C17: with the g09 child of the invocation as the only writer of the output
\* file, an attempt whose run left the file as it was at the preceding failed
\* verification (the cache check or the attempt before) gets the verdict
\* False: a stale output is never taken for the success of a later attempt.
C17_StaleOutputRejected ==
    \A r \in Runs :
        (verified[r].done /\ verified[r].stale) =>
            /\ ~success[r]
            /\ pc[r] \notin {"parse", "returned", "parseError"}
            /\ LET runs == SelectSeq(events[r], LAMBDA e : e.op = "run")
               IN  Len(runs) > 0 /\ ~runs[Len(runs)].verdict

C17_Witness ==
    \E r \in Runs :
        /\ verified[r].done
        /\ verified[r].stale
        /\ outputFile.exists
        /\ Count(r, "run") >= 2
        /\ events[r][Len(events[r])].op = "run"
        /\ ~events[r][Len(events[r])].verdict

\* C19: re-invocation is idempotent: after an invocation that returned a
\* result, the next generateQMData call on the unchanged output file takes the
\* cached path, with no input written and no g09 launched.
C19_ReinvocationIdempotent ==
    \A r \in Runs :
        (r > 1 /\ pc[r - 1] = "returned") =>
            /\ pc[r] \in {"idle", "cacheCheck", "parse", "returned", "parseError"}
            /\ Count(r, "cache") = 1 => CacheVerdict(r)
            /\ Count(r, "write") = 0
            /\ Count(r, "launch") = 0
            /\ pc[r] = "returned" => result[r] = result[r - 1]

C19_Witness ==
    \E r \in Runs :
        /\ r > 1
        /\ pc[r - 1] = "returned"
        /\ Count(r - 1, "run") >= 1
        /\ pc[r] = "returned"
        /\ Count(r, "write") = 0
        /\ Count(r, "launch") = 0
        /\ result[r] = result[r - 1]

----------------------------------------------------------------------------
(* GaussianReaction.generateKineticData: the copy of generateQMData that a
   GaussianReactionPM3 object runs, behind two ipdb breakpoints *)

KineticCls == "GaussianReactionPM3"

\* what the user of the debugger types at its prompt
DebuggerCommands == {"continue", "quit"}

\* line 274: import ipdb raises ImportError where ipdb is not installed;
\* otherwise set_trace() stops the call at the prompt of the debugger
KineticCall(r) ==
    /\ pc[r] = "idle"
    /\ r > 1 => pc[r - 1] \in Terminal
    /\ \E installed \in BOOLEAN :
          pc' = [pc EXCEPT ![r] = IF installed THEN "trace274" ELSE "importError"]
    /\ UNCHANGED <<attempt, success, result, events, inputFile, outputFile,
                   solverInput, molecule, vf, kw, outputBy, verified, wr, pr, rn>>

\* the prompt of line 274 is left: on with line 275, or BdbQuit
KineticFirstTrace(r) ==
    /\ pc[r] = "trace274"
    /\ \E command \in DebuggerCommands :
          pc' = [pc EXCEPT ![r] = IF command = "continue" THEN "tsEstimate"
                                 ELSE "debuggerQuit"]
    /\ UNCHANGED <<attempt, success, result, events, inputFile, outputFile,
                   solverInput, molecule, vf, kw, outputBy, verified, wr, pr, rn>>

\* lines 275-276: self.generateTSEstimate() returns and set_trace() stops the
\* call again
KineticTSEstimate(r) ==
    /\ pc[r] = "tsEstimate"
    /\ pc' = [pc EXCEPT ![r] = "trace276"]
    /\ UNCHANGED <<attempt, success, result, events, inputFile, outputFile,
                   solverInput, molecule, vf, kw, outputBy, verified, wr, pr, rn>>

\* the prompt of line 276 is left: on with the cache check, or BdbQuit
KineticSecondTrace(r) ==
    /\ pc[r] = "trace276"
    /\ \E command \in DebuggerCommands :
          pc' = [pc EXCEPT ![r] = IF command = "continue" THEN "cacheCheck"
                                 ELSE "debuggerQuit"]
    /\ UNCHANGED <<attempt, success, result, events, inputFile, outputFile,
                   solverInput, molecule, vf, kw, outputBy, verified, wr, pr, rn>>

\* lines 277-281: the cache check and, when it fails, the entry into the loop
KineticCacheCheck(r) ==
    /\ pc[r] = "cacheCheck"
    /\ \E v \in {verifyOutputFile(outputFile, uniqueIDlong)} :
       IF v.ok
       THEN LET verdict == v.value
                step == cacheStep(KineticCls, verdict)
            IN
            /\ events' = [events EXCEPT ![r] =
                   Append(@, [op |-> "cache", verdict |-> verdict])]
            /\ pc' = [pc EXCEPT ![r] = step.pc]
            /\ attempt' = [attempt EXCEPT ![r] = IF step.inLoop THEN rangeStart ELSE @]
            /\ success' = [success EXCEPT ![r] = FALSE]
       ELSE /\ events' = [events EXCEPT ![r] = Append(@, [op |-> "cache", exc |-> v.exc])]
            /\ pc' = [pc EXCEPT ![r] = "ioError"]
            /\ UNCHANGED <<attempt, success>>
    /\ verified' = [verified EXCEPT ![r] =
           [done |-> TRUE, by |-> outputBy, stale |-> FALSE, unchanged |-> TRUE]]
    /\ UNCHANGED <<result, inputFile, outputFile, solverInput, molecule, vf, kw,
                   outputBy, wr, pr, rn>>

\* line 282: self.writeInputFile(attempt), the method of lines 240-262
KineticWriteInput(r) ==
    /\ pc[r] = "write"
    /\ LET w == writeInputFile(KineticCls, attempt[r], uniqueIDlong) IN
       IF w.ok
       THEN /\ inputFile' = Input(Join(w.value))
            /\ events' = [events EXCEPT ![r] =
                   Append(@, [op |-> "write", attempt |-> attempt[r],
                              keywords |-> w.value[1],
                              index |-> foldAttempt(KineticCls, attempt[r]) - 1])]
            /\ pc' = [pc EXCEPT ![r] = "launch"]
       ELSE /\ pc' = [pc EXCEPT ![r] = "writeError"]
            /\ inputFile' = IF w.opened THEN Input(Join(w.written)) ELSE inputFile
            /\ UNCHANGED events
    /\ UNCHANGED <<attempt, success, result, outputFile, solverInput, molecule, vf, kw,
                   outputBy, verified, wr, pr, rn>>

\* lines 43, 283-288: run() returns the verdict; break, next attempt, or raise
KineticVerifyRun(r) ==
    /\ pc[r] = "verify"
    /\ \E returncode \in ReturnCodes :
       \E v \in {run(outputFile, uniqueIDlong, returncode)} :
       IF v.ok
       THEN LET verdict == v.value
                step == loopStep(KineticCls, attempt[r], verdict)
            IN
            /\ success' = [success EXCEPT ![r] = verdict]
            /\ events' = [events EXCEPT ![r] =
                   Append(@, [op |-> "run", attempt |-> attempt[r], verdict |-> verdict])]
            /\ pc' = [pc EXCEPT ![r] = step.pc]
            /\ attempt' = [attempt EXCEPT ![r] = step.attempt]
       ELSE /\ events' = [events EXCEPT ![r] =
                   Append(@, [op |-> "run", attempt |-> attempt[r], exc |-> v.exc])]
            /\ pc' = [pc EXCEPT ![r] = "ioError"]
            /\ UNCHANGED <<attempt, success>>
    /\ verified' = [verified EXCEPT ![r] =
           [done |-> TRUE, by |-> outputBy, stale |-> verified[r].unchanged,
            unchanged |-> TRUE]]
    /\ UNCHANGED <<result, inputFile, outputFile, solverInput, molecule, vf, kw,
                   outputBy, wr, pr, rn>>

\* Launch, SolverExit and Parse are those of Gaussian.run and Gaussian.parse,
\* which both kinds of object inherit
NextKinetic ==
    \E r \in Runs :
        \/ KineticCall(r)
        \/ KineticFirstTrace(r)
        \/ KineticTSEstimate(r)
        \/ KineticSecondTrace(r)
        \/ KineticCacheCheck(r)
        \/ KineticWriteInput(r)
        \/ Launch(r)
        \/ SolverExit(r)
        \/ KineticVerifyRun(r)
        \/ Parse(r)

SpecKinetic == Init /\ [][NextKinetic]_vars

\* a generateKineticData call that went past both breakpoints, found no
\* verified log, and returned the parsed log of its second attempt
KineticReturned ==
    \E r \in Runs :
        /\ pc[r] = "returned"
        /\ CacheMissed(r)
        /\ RunVerdicts(r) = <<FALSE, TRUE>>
        /\ WrittenAttempts(r) = <<1, 2>>

----------------------------------------------------------------------------
(* Two generateQMData calls for the same molecule at the same time: two
   QMMolecule objects with the same uniqueID share getFilePath('.gjf') and
   getFilePath('.log'); generateQMData takes no lock on either *)

\* the two objects that compute the same geometry
Pair == {1, 2}

\* the race is followed over the first attempts of each call
RaceAttempts == 2

\* a lock on the identity is held from the call to its end
CallConcurrent_serialized(r) ==
    /\ pc[r] = "idle"
    /\ \A o \in Pair \ {r} : ~Active(o)
    /\ pc' = [pc EXCEPT ![r] = "cacheCheck"]
    /\ UNCHANGED <<attempt, success, result, events, inputFile, outputFile,
                   solverInput, molecule, vf, kw, outputBy, verified, wr, pr, rn>>

\* line 166: generateQMData is entered whatever the other object is doing
CallConcurrent(r) ==
    /\ pc[r] = "idle"
    /\ pc' = [pc EXCEPT ![r] = "cacheCheck"]
    /\ UNCHANGED <<attempt, success, result, events, inputFile, outputFile,
                   solverInput, molecule, vf, kw, outputBy, verified, wr, pr, rn>>

\* line 152: open(self.inputFilePath, 'w') empties the file; the write()
\* calls of lines 153-155 fill the buffer of the file object
OpenInput(r) ==
    /\ pc[r] = "write"
    /\ LET w == writeInputFile(Cls, attempt[r], uniqueIDlong) IN
       IF w.opened
       THEN /\ inputFile' = Input("")
            /\ pc' = [pc EXCEPT ![r] = "writing"]
       ELSE /\ pc' = [pc EXCEPT ![r] = "writeError"]
            /\ UNCHANGED inputFile
    /\ UNCHANGED <<attempt, success, result, events, outputFile, solverInput, molecule,
                   vf, kw, outputBy, verified, wr, pr, rn>>

\* the with block of line 152 is left: the file object is closed and its
\* buffer reaches the file
CloseInput(r) ==
    /\ pc[r] = "writing"
    /\ LET w == writeInputFile(Cls, attempt[r], uniqueIDlong) IN
       /\ inputFile' = Input(Overlay(Join(w.written), inputFile.text))
       /\ IF w.ok
          THEN /\ events' = [events EXCEPT ![r] =
                      Append(@, [op |-> "write", attempt |-> attempt[r],
                                 keywords |-> w.value[1],
                                 index |-> foldAttempt(Cls, attempt[r]) - 1])]
               /\ pc' = [pc EXCEPT ![r] = "launch"]
          ELSE /\ pc' = [pc EXCEPT ![r] = "writeError"]
               /\ UNCHANGED events
    /\ UNCHANGED <<attempt, success, result, outputFile, solverInput, molecule, vf, kw,
                   outputBy, verified, wr, pr, rn>>

\* the steps of generateQMData, taken while the call is within RaceAttempts
InRace(r) == attempt[r] <= RaceAttempts

ConcurrentCacheCheck(r) == InRace(r) /\ CacheCheck(r)

ConcurrentOpenInput(r) == InRace(r) /\ OpenInput(r)

ConcurrentCloseInput(r) == InRace(r) /\ CloseInput(r)

ConcurrentLaunch(r) == InRace(r) /\ Launch(r)

ConcurrentSolverExit(r) == InRace(r) /\ SolverExit(r)

ConcurrentVerifyRun(r) == InRace(r) /\ VerifyRun(r)

ConcurrentParse(r) == InRace(r) /\ Parse(r)

NextConcurrent ==
    \E r \in Pair :
        \/ CallConcurrent(r)
        \/ ConcurrentCacheCheck(r)
        \/ ConcurrentOpenInput(r)
        \/ ConcurrentCloseInput(r)
        \/ ConcurrentLaunch(r)
        \/ ConcurrentSolverExit(r)
        \/ ConcurrentVerifyRun(r)
        \/ ConcurrentParse(r)

SpecConcurrent == Init /\ [][NextConcurrent]_vars

\* the keywords of the input file that attempt a of the class writes
DeckOf(a) == inputFileKeywords(Cls, a).value

\* the content of the input file that attempt a of the class writes
DeckText(a) == Join(writeInputFile(Cls, a, uniqueIDlong).value)

\* the g09 child that r launched last was given another input than the one r
\* wrote for that launch
InputClobbered(r) ==
    LET launches == EventsOf(r, "launch") IN
    /\ launches # <<>>
    /\ solverInput[r] # Input(DeckText(launches[Len(launches)].attempt))

\* r took for its attempt the log that the g09 child of o wrote from the
\* input of another attempt
OutputClobbered(r, o) ==
    /\ pc[r] = "parse"
    /\ success[r]
    /\ Count(r, "run") >= 1
    /\ verified[r].by = o
    /\ outputBy = o
    /\ pc[o] = "verify"
    /\ \E a \in 1..maxAttempts(Cls) :
          /\ solverInput[o] = Input(DeckText(a))
          /\ DeckOf(a) # DeckOf(attempt[r])

\* C20: generateQMData does not serialize the computations of one geometry:
\* a second call is let in while the first is at work, it may empty and write
\* the input file while the first is between its write and its launch, and its g09 child
\* may write the output file while the first is about to verify; so a call
\* can take a log made from the keywords of another attempt for its own.
C20_NotSerialized ==
    \A r \in Pair : \A o \in Pair \ {r} :
        /\ (Active(r) /\ pc[o] = "idle") => ENABLED CallConcurrent(o)
        /\ (pc[r] = "launch" /\ pc[o] = "write") => ENABLED OpenInput(o)
        /\ (pc[r] = "launch" /\ pc[o] = "writing") => ENABLED CloseInput(o)
        /\ (pc[r] = "verify" /\ pc[o] = "running") => ENABLED SolverExit(o)

C20_Witness ==
    \E r \in Pair : \E o \in Pair \ {r} :
        /\ InputClobbered(r)
        /\ OutputClobbered(r, o)

----------------------------------------------------------------------------
(* Properties of the keyword policy, seen through generateQMData *)

\* C8: wraparound law: an attempt above scriptAttempts is written with the
\* keywords attempt - scriptAttempts was written with, so the second half of
\* the budget replays the table in the order of the first half.
C8_Wraparound ==
    \A r \in Runs :
        LET w == EventsOf(r, "write") IN
        \A i \in DOMAIN w :
            (scriptAttempts(Cls) < w[i].attempt /\ w[i].attempt <= maxAttempts(Cls)) =>
                \E j \in DOMAIN w :
                    /\ w[j].attempt = w[i].attempt - scriptAttempts(Cls)
                    /\ w[j].keywords = w[i].keywords

C8_Witness ==
    \E r \in Runs :
        LET w == EventsOf(r, "write") IN
        /\ Len(w) = maxAttempts(Cls)
        /\ w[maxAttempts(Cls)].attempt = maxAttempts(Cls)
        /\ w[maxAttempts(Cls)].keywords = w[scriptAttempts(Cls)].keywords

\* C9: the attempt index handed to writeInputFile and inputFileKeywords is
\* always in 1..maxAttempts, maxAttempts is twice scriptAttempts, and the table
\* index computed from the attempt is in 0..scriptAttempts-1.
C9_AttemptInRange ==
    /\ maxAttempts(Cls) = 2 * scriptAttempts(Cls)
    /\ \A r \in Runs :
        /\ pc[r] \in {"write", "launch", "running", "verify"} =>
              /\ attempt[r] \in 1..maxAttempts(Cls)
              /\ (foldAttempt(Cls, attempt[r]) - 1) \in 0..(scriptAttempts(Cls) - 1)
        /\ pc[r] # "writeError"
        /\ LET w == EventsOf(r, "write") IN
           \A i \in DOMAIN w :
              /\ w[i].attempt \in 1..maxAttempts(Cls)
              /\ w[i].index \in 0..(scriptAttempts(Cls) - 1)

C9_Witness ==
    \E r \in Runs :
        /\ pc[r] = "launch"
        /\ attempt[r] = maxAttempts(Cls)
        /\ EventsOf(r, "write")[maxAttempts(Cls)].index = scriptAttempts(Cls) - 1

\* C10: scriptAttempts is the number of distinct keyword templates: the
\* attempts 1..scriptAttempts are each written with a different keyword string.
C10_DistinctKeywords ==
    \A r \in Runs :
        LET w == EventsOf(r, "write") IN
        \A i, j \in DOMAIN w :
            (i < j /\ w[j].attempt <= scriptAttempts(Cls)) =>
                w[i].keywords # w[j].keywords

----------------------------------------------------------------------------
(* Direct calls of verifyOutputFile on arbitrary documents *)

InitVerify ==
    /\ pc = [r \in Runs |-> "idle"]
    /\ attempt = [r \in Runs |-> 0]
    /\ success = [r \in Runs |-> FALSE]
    /\ result = [r \in Runs |-> NoResult]
    /\ events = [r \in Runs |-> <<>>]
    /\ inputFile = NoInput
    /\ outputFile = NoFile
    /\ solverInput = [r \in Runs |-> NoInput]
    /\ molecule = <<>>
    /\ kw = [called |-> FALSE]
    /\ outputBy = 0
    /\ verified = [r \in Runs |-> NotVerified]
    /\ wr = [called |-> FALSE]
    /\ pr = [called |-> FALSE]
    /\ rn = [called |-> FALSE]
    /\ \E f \in Documents(MaxLines) \cup {Unreadable}, id \in IdentityPool :
           vf = [called |-> FALSE, file |-> f, uniqueIDlong |-> id]

CallVerifyOutputFile ==
    /\ ~vf.called
    /\ vf' = [called |-> TRUE, file |-> vf.file, uniqueIDlong |-> vf.uniqueIDlong,
              ret |-> verifyOutputFile(vf.file, vf.uniqueIDlong)]
    /\ UNCHANGED <<orchVars, kw, wr, pr, rn>>

NextVerify == CallVerifyOutputFile

SpecVerify == InitVerify /\ [][NextVerify]_vars

----------------------------------------------------------------------------
(* Properties of verifyOutputFile *)

\* the lines of a document as the scan sees them
Stripped(file) == [i \in DOMAIN file.lines |-> strip(file.lines[i])]

HasFailureMarker(file) ==
    \E i \in DOMAIN file.lines : \E k \in DOMAIN failureKeys :
        Contains(failureKeys[k], Stripped(file)[i])

HasAllSuccessMarkers(file) ==
    \A k \in DOMAIN successKeys : \E i \in DOMAIN file.lines :
        Contains(successKeys[k], Stripped(file)[i])

IdentityLines(file) ==
    {i \in DOMAIN file.lines : startswith(Stripped(file)[i], "InChI=")}

IdentityMatches(line, id) == line = id \/ startswith(id, line)

\* C4: verifyOutputFile returns True exactly when the file exists, no line
\* holds a failure marker, every success marker is in some line, some line
\* starts with "InChI=" and the identity match policy is satisfied; otherwise it
\* returns False, and nothing else.
C4_VerifyIff ==
    vf.called =>
        /\ vf.ret \in {Return(TRUE), Return(FALSE)}
        /\ vf.ret = Return(TRUE) <=>
              /\ vf.file.exists
              /\ ~HasFailureMarker(vf.file)
              /\ HasAllSuccessMarkers(vf.file)
              /\ IdentityLines(vf.file) # {}
              /\ \E i \in IdentityLines(vf.file) :
                     IdentityMatches(Stripped(vf.file)[i], vf.uniqueIDlong)

C4_Witness ==
    /\ vf.called
    /\ vf.ret = Return(TRUE)
    /\ Len(vf.file.lines) = MaxLines
    /\ Cardinality(IdentityLines(vf.file)) = 1

\* C5: a document with a failure marker in any line verifies False, wherever
\* that line stands, even with all success markers present and a matching
\* identity.
C5_FailureMarkerWins ==
    (vf.called /\ vf.file.exists /\ HasFailureMarker(vf.file)) => vf.ret = Return(FALSE)

C5_Witness ==
    /\ vf.called
    /\ vf.file.exists
    /\ Len(vf.file.lines) = 3
    /\ HasAllSuccessMarkers(vf.file)
    /\ \E i \in IdentityLines(vf.file) : Stripped(vf.file)[i] = vf.uniqueIDlong
    /\ Contains("IMAGINARY FREQUENCIES", vf.file.lines[3])
    /\ vf.ret = Return(FALSE)

\* C6: for a document with all success markers, no failure marker and a single
\* line starting with "InChI=": True when the line equals the expected identity,
\* True when the expected identity starts with the line, False when neither.
C6_IdentityPolicy ==
    (/\ vf.called
     /\ vf.file.exists
     /\ HasAllSuccessMarkers(vf.file)
     /\ ~HasFailureMarker(vf.file)
     /\ Cardinality(IdentityLines(vf.file)) = 1) =>
        LET line == Stripped(vf.file)[CHOOSE i \in IdentityLines(vf.file) : TRUE] IN
        /\ line = vf.uniqueIDlong => vf.ret = Return(TRUE)
        /\ (line # vf.uniqueIDlong /\ startswith(vf.uniqueIDlong, line)) =>
              vf.ret = Return(TRUE)
        /\ (line # vf.uniqueIDlong /\ ~startswith(vf.uniqueIDlong, line)) =>
              vf.ret = Return(FALSE)

C6_Witness ==
    /\ vf.called
    /\ vf.file.exists
    /\ HasAllSuccessMarkers(vf.file)
    /\ ~HasFailureMarker(vf.file)
    /\ Cardinality(IdentityLines(vf.file)) = 1
    /\ LET line == Stripped(vf.file)[CHOOSE i \in IdentityLines(vf.file) : TRUE] IN
       /\ line # vf.uniqueIDlong
       /\ startswith(vf.uniqueIDlong, line)
    /\ vf.ret = Return(TRUE)

\* C18: with several lines starting with "InChI=", the identity check is
\* satisfied as soon as one of them equals or is a prefix of the expected
\* identity; a mismatching identity line before or after it does not revoke
\* the match and does not by itself make the verdict False.
C18_AnyIdentityLineMatches ==
    (/\ vf.called
     /\ vf.file.exists
     /\ HasAllSuccessMarkers(vf.file)
     /\ ~HasFailureMarker(vf.file)
     /\ Cardinality(IdentityLines(vf.file)) >= 2) =>
        vf.ret = Return(\E i \in IdentityLines(vf.file) :
                            IdentityMatches(Stripped(vf.file)[i], vf.uniqueIDlong))

C18_Witness ==
    /\ vf.called
    /\ vf.file.exists
    /\ HasAllSuccessMarkers(vf.file)
    /\ ~HasFailureMarker(vf.file)
    /\ \E i, j \in IdentityLines(vf.file) :
          /\ i < j
          /\ IdentityMatches(Stripped(vf.file)[i], vf.uniqueIDlong)
          /\ ~IdentityMatches(Stripped(vf.file)[j], vf.uniqueIDlong)
    /\ vf.ret = Return(TRUE)

----------------------------------------------------------------------------
(* Direct calls of writeInputFile, on objects with usePolar set or not *)

InitWrite ==
    /\ pc = [r \in Runs |-> "idle"]
    /\ attempt = [r \in Runs |-> 0]
    /\ success = [r \in Runs |-> FALSE]
    /\ result = [r \in Runs |-> NoResult]
    /\ events = [r \in Runs |-> <<>>]
    /\ inputFile = NoInput
    /\ solverInput = [r \in Runs |-> NoInput]
    /\ molecule = <<>>
    /\ outputBy = 0
    /\ verified = [r \in Runs |-> NotVerified]
    /\ outputFile = NoFile
    /\ vf = [called |-> FALSE]
    /\ kw = [called |-> FALSE]
    /\ pr = [called |-> FALSE]
    /\ rn = [called |-> FALSE]
    /\ \E cls \in Classes, polar \in BOOLEAN :
       \E a \in 1..maxAttempts(cls) :
           wr = [called |-> FALSE, cls |-> cls, attempt |-> a, usePolar |-> polar]

CallWriteInputFile ==
    /\ ~wr.called
    /\ LET w == writeInputFileWith(wr.cls, wr.attempt, uniqueIDlong, wr.usePolar) IN
       /\ wr' = [called |-> TRUE, cls |-> wr.cls, attempt |-> wr.attempt,
                 usePolar |-> wr.usePolar, ok |-> w.ok]
       /\ inputFile' = IF w.opened THEN Input(Join(w.written)) ELSE inputFile
    /\ UNCHANGED <<pc, attempt, success, result, events, outputFile, solverInput,
                   molecule, outputBy, verified, vf, kw, pr, rn>>

NextWrite == CallWriteInputFile

SpecWrite == InitWrite /\ [][NextWrite]_vars

\* C12: writeInputFile(attempt) completes and the input file holds the policy
\* header for the attempt, the geometry block and a trailing blank line,
\* followed by the polarizability section when usePolar is set and by nothing
\* when it is not.
C12_InputDocument ==
    wr.called =>
        /\ wr.ok
        /\ inputFile.exists
        /\ LET document == inputFileKeywords(wr.cls, wr.attempt).value
                               \o input_string(wr.attempt, uniqueIDlong) \o "\n"
           IN  /\ startswith(inputFile.text, document)
               /\ ~wr.usePolar => inputFile.text = document
               /\ wr.usePolar => Len(inputFile.text) > Len(document)

----------------------------------------------------------------------------
(* Direct calls of parse on molecules with arbitrary radical counts *)

\* every list of at most n radical counts in 0..m
AtomLists(n, m) == UNION { [1..k -> 0..m] : k \in 0..n }

InitParse ==
    /\ pc = [r \in Runs |-> "idle"]
    /\ attempt = [r \in Runs |-> 0]
    /\ success = [r \in Runs |-> FALSE]
    /\ result = [r \in Runs |-> NoResult]
    /\ events = [r \in Runs |-> <<>>]
    /\ inputFile = NoInput
    /\ solverInput = [r \in Runs |-> NoInput]
    /\ molecule = <<>>
    /\ outputBy = 0
    /\ verified = [r \in Runs |-> NotVerified]
    /\ outputFile = GoodLog
    /\ vf = [called |-> FALSE]
    /\ kw = [called |-> FALSE]
    /\ wr = [called |-> FALSE]
    /\ rn = [called |-> FALSE]
    /\ \E atoms \in AtomLists(MaxAtoms, MaxRadical) :
           pr = [called |-> FALSE, atoms |-> atoms]

CallParse ==
    /\ ~pr.called
    /\ \E parsed \in BOOLEAN :
           pr' = [called |-> TRUE, atoms |-> pr.atoms,
                  ret |-> parse(outputFile, pr.atoms, parsed)]
    /\ UNCHANGED <<orchVars, vf, kw, wr, rn>>

NextParse == CallParse

SpecParse == InitParse /\ [][NextParse]_vars

\* the radical electrons of the first n atoms, counted atom by atom
RECURSIVE RadicalsUpTo(_, _)
RadicalsUpTo(atoms, n) ==
    IF n = 0 THEN 0 ELSE RadicalsUpTo(atoms, n - 1) + atoms[n]

\* C13: the result of parse carries the multiplicity (sum of the radical
\* electrons of all atoms) + 1, for every list of non-negative counts:
\* [0,0,1,0] gives 2, an all-zero list gives 1.
C13_Multiplicity ==
    (pr.called /\ pr.ret.ok) =>
        /\ pr.ret.value.multiplicity = RadicalsUpTo(pr.atoms, Len(pr.atoms)) + 1
        /\ pr.atoms = <<0, 0, 1, 0>> => pr.ret.value.multiplicity = 2
        /\ (\A i \in DOMAIN pr.atoms : pr.atoms[i] = 0) => pr.ret.value.multiplicity = 1
        /\ pr.ret.value.cclibData = outputFile

C13_Witness ==
    /\ pr.called
    /\ pr.ret.ok
    /\ pr.atoms = <<0, 0, 1, 0>>
    /\ pr.ret.value.multiplicity = 2

----------------------------------------------------------------------------
(* run() on two g09 children side by side *)

InitRun ==
    /\ pc = [r \in Runs |-> "idle"]
    /\ attempt = [r \in Runs |-> 0]
    /\ success = [r \in Runs |-> FALSE]
    /\ result = [r \in Runs |-> NoResult]
    /\ events = [r \in Runs |-> <<>>]
    /\ inputFile = NoInput
    /\ solverInput = [r \in Runs |-> NoInput]
    /\ molecule = <<>>
    /\ outputBy = 0
    /\ verified = [r \in Runs |-> NotVerified]
    /\ outputFile = NoFile
    /\ vf = [called |-> FALSE]
    /\ kw = [called |-> FALSE]
    /\ wr = [called |-> FALSE]
    /\ pr = [called |-> FALSE]
    /\ \E f1, f2 \in {NoFile, Unreadable} \cup SolverLogs, c1, c2 \in ReturnCodes :
           rn = [called |-> FALSE,
                 first  |-> [file |-> f1, returncode |-> c1],
                 second |-> [file |-> f2, returncode |-> c2]]

\* both children have exited; each run() returns its verdict
CallRunTwice ==
    /\ ~rn.called
    /\ rn' = [called |-> TRUE, first |-> rn.first, second |-> rn.second,
              ret1 |-> run(rn.first.file, uniqueIDlong, rn.first.returncode),
              ret2 |-> run(rn.second.file, uniqueIDlong, rn.second.returncode)]
    /\ UNCHANGED <<orchVars, vf, kw, wr, pr>>

NextRun == CallRunTwice

SpecRun == InitRun /\ [][NextRun]_vars

\* C14: the verdict of run() depends only on the content of the output file
\* after the child has exited (and on the expected identity), not on the exit
\* status: two runs that leave the same content get the same verdict whatever
\* their exit statuses.
C14_VerdictIgnoresExitStatus ==
    (rn.called /\ rn.first.file = rn.second.file) => rn.ret1 = rn.ret2

C14_Witness ==
    /\ rn.called
    /\ rn.first.file = rn.second.file
    /\ rn.first.returncode # rn.second.returncode
    /\ rn.ret1 = Return(TRUE)
    /\ rn.ret2 = Return(TRUE)

----------------------------------------------------------------------------
(* Direct calls of inputFileKeywords with arbitrary attempt numbers *)

InitKeywords ==
    /\ pc = [r \in Runs |-> "idle"]
    /\ attempt = [r \in Runs |-> 0]
    /\ success = [r \in Runs |-> FALSE]
    /\ result = [r \in Runs |-> NoResult]
    /\ events = [r \in Runs |-> <<>>]
    /\ inputFile = NoInput
    /\ outputFile = NoFile
    /\ solverInput = [r \in Runs |-> NoInput]
    /\ molecule = <<>>
    /\ vf = [called |-> FALSE]
    /\ outputBy = 0
    /\ verified = [r \in Runs |-> NotVerified]
    /\ wr = [called |-> FALSE]
    /\ pr = [called |-> FALSE]
    /\ rn = [called |-> FALSE]
    /\ \E cls \in Classes :
       \E a \in (-(scriptAttempts(cls) + ArgSlack))..(maxAttempts(cls) + ArgSlack) :
           kw = [called |-> FALSE, cls |-> cls, attempt |-> a]

CallInputFileKeywords ==
    /\ ~kw.called
    /\ kw' = [called |-> TRUE, cls |-> kw.cls, attempt |-> kw.attempt,
              ret |-> inputFileKeywords(kw.cls, kw.attempt)]
    /\ UNCHANGED <<orchVars, vf, wr, pr, rn>>

NextKeywords == CallInputFileKeywords

SpecKeywords == InitKeywords /\ [][NextKeywords]_vars

----------------------------------------------------------------------------
(* Properties of inputFileKeywords *)

\* C7: inputFileKeywords returns a template for every attempt in
\* 1..maxAttempts and fails its precondition check for attempt 0 and for
\* attempt maxAttempts + 1.
C7_KeywordsPrecondition ==
    kw.called =>
        /\ kw.attempt \in 1..maxAttempts(kw.cls) =>
              /\ kw.ret.ok
              /\ kw.ret.value \in Range(keywords(kw.cls))
        /\ kw.attempt \in {0, maxAttempts(kw.cls) + 1} => ~kw.ret.ok

====
